---- MODULE Spec2Model ----
(***************************************************************************)
(* Model of splatpack (src/splatpack/cli.py): discovery of .dng files,     *)
(* grouping by parent directory, the darktable-cli export loop and the     *)
(* packaging of the job bundle (job.json, manifest.txt, optional zip).     *)
(*                                                                         *)
(* A character is a one-character string; a Python str is a sequence of    *)
(* characters; a pathlib.Path is the sequence of its parts.                *)
(***************************************************************************)
EXTENDS Integers, Sequences, FiniteSets, TLC

\* ------------------------------------------------------------------------
\* Bounds
\* ------------------------------------------------------------------------

\* longest text handed to safe_name in SafeNameSpec
MaxLen == 5

\* largest number of directory entries in a dataset tree
MaxEntries == 3

\* ------------------------------------------------------------------------
\* Characters and strings
\* ------------------------------------------------------------------------

\* code points of the characters the model uses (ord)
Ord ==
  [c \in {"\t", "\n", " ", "-", ".", "/", "0", "1", "2", "3", "4", "5", "6",
          "7", "8", "9", "A", "D", "G", "L", "N", "S", "U", "_", "a", "b",
          "c", "d", "e", "g", "i", "j", "k", "l", "m", "n", "o", "p", "r",
          "s", "t", "u", "y"} |->
     CASE c = "\t" -> 9   [] c = "\n" -> 10  [] c = " " -> 32  [] c = "-" -> 45
       [] c = "." -> 46   [] c = "/" -> 47   [] c = "0" -> 48  [] c = "1" -> 49
       [] c = "2" -> 50   [] c = "3" -> 51   [] c = "4" -> 52  [] c = "5" -> 53
       [] c = "6" -> 54   [] c = "7" -> 55   [] c = "8" -> 56  [] c = "9" -> 57
       [] c = "A" -> 65   [] c = "D" -> 68   [] c = "G" -> 71  [] c = "L" -> 76
       [] c = "N" -> 78   [] c = "S" -> 83   [] c = "U" -> 85  [] c = "_" -> 95
       [] c = "a" -> 97   [] c = "b" -> 98   [] c = "c" -> 99  [] c = "d" -> 100
       [] c = "e" -> 101  [] c = "g" -> 103  [] c = "i" -> 105 [] c = "j" -> 106
       [] c = "k" -> 107  [] c = "l" -> 108  [] c = "m" -> 109 [] c = "n" -> 110
       [] c = "o" -> 111  [] c = "p" -> 112  [] c = "r" -> 114 [] c = "s" -> 115
       [] c = "t" -> 116  [] c = "u" -> 117  [] c = "y" -> 121]

\* str.isspace for one character
IsSpace(c) == c \in {"\t", "\n", " "}

\* str.isalnum for one character
IsAlnum(c) ==
  \/ (Ord[c] >= 48 /\ Ord[c] <= 57)
  \/ (Ord[c] >= 65 /\ Ord[c] <= 90)
  \/ (Ord[c] >= 97 /\ Ord[c] <= 122)

\* str.lower for one character
LowerChar(c) ==
  CASE c = "D" -> "d" [] c = "N" -> "n" [] c = "G" -> "g" [] OTHER -> c

\* str.lower
Lower(s) == [i \in 1..Len(s) |-> LowerChar(s[i])]

RECURSIVE LStrip(_)
\* str.lstrip(): drop leading whitespace
LStrip(s) ==
  IF s = <<>> THEN <<>>
  ELSE IF IsSpace(Head(s)) THEN LStrip(Tail(s)) ELSE s

RECURSIVE RStrip(_)
\* str.rstrip(): drop trailing whitespace
RStrip(s) ==
  IF s = <<>> THEN <<>>
  ELSE IF IsSpace(s[Len(s)]) THEN RStrip(SubSeq(s, 1, Len(s) - 1)) ELSE s

\* str.strip()
Strip(s) == RStrip(LStrip(s))

\* "  " in s
HasDoubleSpace(s) == \E i \in 1..(Len(s) - 1) : s[i] = " " /\ s[i + 1] = " "

RECURSIVE ReplaceDoubleSpace(_)
\* s.replace("  ", " "): one left-to-right pass over non-overlapping matches
ReplaceDoubleSpace(s) ==
  IF Len(s) < 2 THEN s
  ELSE IF s[1] = " " /\ s[2] = " "
       THEN <<" ">> \o ReplaceDoubleSpace(SubSeq(s, 3, Len(s)))
       ELSE <<s[1]>> \o ReplaceDoubleSpace(Tail(s))

\* a single replace pass instead of the while loop
CollapseSpaces_OnePass(s) == ReplaceDoubleSpace(s)

RECURSIVE CollapseSpaces(_)
\* while "  " in safe: safe = safe.replace("  ", " ")
CollapseSpaces(s) ==
  IF HasDoubleSpace(s) THEN CollapseSpaces(ReplaceDoubleSpace(s)) ELSE s

\* every character kept as it is
SafeChar_Keep(ch) == ch

\* the per-character rule of safe_name
SafeChar(ch) == IF IsAlnum(ch) \/ ch \in {"_", ".", " "} THEN ch ELSE "_"

\* the placeholder returned for an empty text
Placeholder == <<"d", "a", "t", "a", "s", "e", "t">>

\* safe_name(text)
safe_name(text) ==
  LET stripped == Strip(text)
  IN  IF stripped = <<>> THEN Placeholder
      ELSE CollapseSpaces(Strip([i \in 1..Len(stripped) |-> SafeChar(stripped[i])]))

\* ------------------------------------------------------------------------
\* Paths
\* ------------------------------------------------------------------------

RECURSIVE StrLess(_, _)
\* s < t for two Python strings (lexicographic by code point)
StrLess(s, t) ==
  IF t = <<>> THEN FALSE
  ELSE IF s = <<>> THEN TRUE
  ELSE IF s[1] = t[1] THEN StrLess(Tail(s), Tail(t))
  ELSE Ord[s[1]] < Ord[t[1]]

RECURSIVE PathLess(_, _)
\* p < q for two absolute paths: PurePath.__lt__ compares the lists of parts
PathLess(p, q) ==
  IF q = <<>> THEN FALSE
  ELSE IF p = <<>> THEN TRUE
  ELSE IF p[1] = q[1] THEN PathLess(Tail(p), Tail(q))
  ELSE StrLess(p[1], q[1])

RECURSIVE Str(_)
\* str(path) of an absolute path: "/" and the parts joined by "/"
Str(p) ==
  IF p = <<>> THEN <<"/">>
  ELSE IF Len(p) = 1 THEN <<"/">> \o p[1]
  ELSE Str(SubSeq(p, 1, Len(p) - 1)) \o <<"/">> \o p[Len(p)]

\* path.parent
Parent(p) == IF p = <<>> THEN <<>> ELSE SubSeq(p, 1, Len(p) - 1)

\* path.name
Name(p) == IF p = <<>> THEN <<>> ELSE p[Len(p)]

\* name.rfind("."), 1-based, 0 when there is no dot
RFindDot(name) ==
  LET dots == {i \in 1..Len(name) : name[i] = "."}
  IN  IF dots = {} THEN 0 ELSE CHOOSE i \in dots : \A j \in dots : j <= i

\* path.suffix: the last dot of the name and what follows it, unless that dot
\* is the first or the last character
Suffix(p) ==
  LET name == Name(p)
      i == RFindDot(name)
  IN  IF 1 < i /\ i < Len(name) THEN SubSeq(name, i, Len(name)) ELSE <<>>

DNG_EXTS == {<<".", "d", "n", "g">>}

DEFAULT_OUT_DIRNAME == <<"_", "s", "p", "l", "a", "t", "p", "a", "c", "k">>

DEFAULT_IMAGES_DIRNAME == <<"i", "m", "a", "g", "e", "s">>

\* ------------------------------------------------------------------------
\* Sorting
\* ------------------------------------------------------------------------

RECURSIVE InsertPath(_, _)
\* insert path p into the sorted list s, after the elements not greater
InsertPath(s, p) ==
  IF s = <<>> THEN <<p>>
  ELSE IF PathLess(p, s[1]) THEN <<p>> \o s
  ELSE <<s[1]>> \o InsertPath(Tail(s), p)

RECURSIVE SortPaths(_)
\* list.sort() on a list of paths (stable, ascending)
SortPaths(s) ==
  IF s = <<>> THEN <<>>
  ELSE InsertPath(SortPaths(SubSeq(s, 1, Len(s) - 1)), s[Len(s)])

RECURSIVE InsertGroup(_, _)
\* insert item kv into the list s sorted by str(kv[0]), after equal keys
InsertGroup(s, kv) ==
  IF s = <<>> THEN <<kv>>
  ELSE IF StrLess(Str(kv[1]), Str(s[1][1])) THEN <<kv>> \o s
  ELSE <<s[1]>> \o InsertGroup(Tail(s), kv)

\* the dict items left in insertion order
SortGroups_Unsorted(s) == s

RECURSIVE SortGroups(_)
\* sorted(groups.items(), key=lambda kv: str(kv[0]))
SortGroups(s) ==
  IF s = <<>> THEN <<>>
  ELSE InsertGroup(SortGroups(SubSeq(s, 1, Len(s) - 1)), s[Len(s)])

\* ------------------------------------------------------------------------
\* File discovery and grouping
\* ------------------------------------------------------------------------

RECURSIVE SetToSeq(_)
\* the entries met by root.rglob("*"), in some order
SetToSeq(S) ==
  IF S = {} THEN <<>>
  ELSE LET x == CHOOSE y \in S : TRUE IN <<x>> \o SetToSeq(S \ {x})

\* iter_dngs(root): tree is the set of entries [path, is_file] under root
iter_dngs(tree) ==
  LET hits == {e.path : e \in {x \in tree : x.is_file /\ Lower(Suffix(x.path)) \in DNG_EXTS}}
  IN  SortPaths(SetToSeq(hits))

RECURSIVE GroupItems(_, _)
\* the items of the dict built by groups.setdefault(p.parent, []).append(p),
\* in insertion order: acc is the list of <<parent, files>> built so far
GroupItems(acc, dngs) ==
  IF dngs = <<>> THEN acc
  ELSE LET p == dngs[1]
           hit == {i \in 1..Len(acc) : acc[i][1] = Parent(p)}
       IN  IF hit = {}
           THEN GroupItems(Append(acc, <<Parent(p), <<p>>>>), Tail(dngs))
           ELSE LET i == CHOOSE j \in hit : TRUE
                IN  GroupItems([acc EXCEPT ![i] = <<acc[i][1], Append(acc[i][2], p)>>],
                               Tail(dngs))

\* group_by_parent_dir(dngs)
group_by_parent_dir(dngs) ==
  LET grouped == SortGroups(GroupItems(<<>>, dngs))
  IN  [i \in 1..Len(grouped) |-> <<grouped[i][1], SortPaths(grouped[i][2])>>]

\* ------------------------------------------------------------------------
\* Naming, metadata and packaging
\* ------------------------------------------------------------------------

\* Python None
None == "None"

\* a file that does not exist, an option that was not given; <<x>> otherwise
Absent == <<>>

\* the decimal digit characters
DigitChars == <<"0", "1", "2", "3", "4", "5", "6", "7", "8", "9">>

RECURSIVE Decimal(_)
\* str(n) for a natural number n
Decimal(n) ==
  IF n < 10 THEN <<DigitChars[n + 1]>>
  ELSE Decimal(n \div 10) \o <<DigitChars[(n % 10) + 1]>>

RECURSIVE ZeroPad(_, _)
\* pad the digit string s on the left with "0" up to width w
ZeroPad(s, w) == IF Len(s) >= w THEN s ELSE ZeroPad(<<"0">> \o s, w)

\* f"{seq_name}_{export_index:06d}.jpg"
OutName(seq_name, export_index) ==
  seq_name \o <<"_">> \o ZeroPad(Decimal(export_index), 6) \o <<".", "j", "p", "g">>

\* default_job_name(dataset_dir)
default_job_name(dataset_dir) == safe_name(Name(dataset_dir))

\* args.job_name or default_job_name(dataset_dir): None and "" are both falsy
JobName(job_name, dataset_dir) ==
  IF job_name = Absent \/ job_name[1] = <<>>
  THEN default_job_name(dataset_dir)
  ELSE job_name[1]

\* dataset_dir / args.out / f"{job_name}_{timestamp}"
JobDir(dataset_dir, out, job_name, timestamp) ==
  dataset_dir \o <<out, job_name \o <<"_">> \o timestamp>>

RECURSIVE JoinLines(_)
\* "\n".join(str(x) for x in image_paths)
JoinLines(image_paths) ==
  IF image_paths = <<>> THEN <<>>
  ELSE IF Len(image_paths) = 1 THEN Str(image_paths[1])
  ELSE Str(image_paths[1]) \o <<"\n">> \o JoinLines(Tail(image_paths))

\* the text write_manifest puts into manifest.txt
ManifestText(image_paths) == JoinLines(image_paths) \o <<"\n">>

\* the deny-list of is_dangerous_directory
Dangerous ==
  { <<>>,
    << <<"S", "y", "s", "t", "e", "m">> >>,
    << <<"L", "i", "b", "r", "a", "r", "y">> >>,
    << <<"A", "p", "p", "l", "i", "c", "a", "t", "i", "o", "n", "s">> >>,
    << <<"U", "s", "e", "r", "s">> >> }

\* the deny-list alone, the home directory not refused
is_dangerous_directory_NoHome(path, home) == path \in Dangerous

\* is_dangerous_directory(path): home is the set holding Path.home().resolve(),
\* empty when resolving the home directory raises
is_dangerous_directory(path, home) == path \in Dangerous \/ path \in home

\* manifest.txt written ahead of job.json
PackagingSteps_ManifestFirst == <<"write_manifest", "write_job_json", "zip">>

\* the order of the two metadata writes and the optional zip in main()
PackagingSteps == <<"write_job_json", "write_manifest", "zip">>

\* the step that follows step st of PackagingSteps ("done" after the last)
StepAfter(st) ==
  LET i == CHOOSE j \in 1..Len(PackagingSteps) : PackagingSteps[j] = st
  IN  IF i = Len(PackagingSteps) THEN "done" ELSE PackagingSteps[i + 1]

\* the loop left after the last file of the first group it finishes
LastIteration_FirstGroup(groups, gi, fi) == fi = Len(groups[gi][2])

\* the export loop is at its last iteration: last file of the last group
LastIteration(groups, gi, fi) == gi = Len(groups) /\ fi = Len(groups[gi][2])

\* ------------------------------------------------------------------------
\* Inputs of a run
\* ------------------------------------------------------------------------

\* /Users/u, the home directory
HomeDir == << <<"U", "s", "e", "r", "s">>, <<"u">> >>

\* /Users/u/ds, a project folder
ProjectDir == HomeDir \o << <<"d", "s">> >>

\* the resolved dataset path and what is found there
DatasetChoices ==
  { [path |-> ProjectDir, kind |-> "missing"],
    [path |-> ProjectDir, kind |-> "file"],
    [path |-> ProjectDir, kind |-> "dir"],
    [path |-> HomeDir, kind |-> "dir"],
    [path |-> << <<"U", "s", "e", "r", "s">> >>, kind |-> "dir"],
    [path |-> <<>>, kind |-> "dir"] }

\* directory entries, relative to the dataset directory
EntryUniverse ==
  { [rel |-> << <<"a">>, <<"1", ".", "d", "n", "g">> >>, is_file |-> TRUE],
    [rel |-> << <<"a">>, <<"2", ".", "D", "N", "G">> >>, is_file |-> TRUE],
    [rel |-> << <<"a", "-", "b">>, <<"1", ".", "d", "n", "g">> >>, is_file |-> TRUE],
    [rel |-> << <<"a", "_", "b">>, <<"3", ".", "d", "n", "g">> >>, is_file |-> TRUE],
    [rel |-> << <<"a">>, <<"c">>, <<"1", ".", "d", "n", "g">> >>, is_file |-> TRUE],
    [rel |-> << <<"4", ".", "d", "n", "g">> >>, is_file |-> TRUE],
    [rel |-> << <<"a">>, <<"5", ".", "j", "p", "g">> >>, is_file |-> TRUE],
    [rel |-> << <<"a">>, <<"6", ".", "d", "n", "g">> >>, is_file |-> FALSE] }

\* the values of --job-name: absent, "j", and a name holding a newline
JobNameChoices == {Absent, << <<"j">> >>, << <<"j", "\n", "k">> >>}

\* values of time.strftime("%Y%m%d_%H%M%S")
Timestamps ==
  { <<"2", "0", "2", "6", "0", "1", "1", "3", "_", "1", "6", "5", "5", "0", "1">> }

\* nothing written yet
EmptyDisk ==
  [dirs |-> {}, images |-> {}, job_json |-> Absent, manifest |-> Absent,
   zip |-> Absent]

\* ------------------------------------------------------------------------
\* State
\* ------------------------------------------------------------------------

VARIABLES
  args,          \* parsed command line: dry_run, zip, job_name, out
  env,           \* what the run finds: dataset, home, tool, tree, timestamp
  pc,            \* position in main()
  fatal,         \* the SystemExit raised, None while there is none
  rglob_done,    \* iter_dngs has walked the dataset directory
  dngs, groups, job_dir, images_dir,
  gi, fi,        \* position of the export loop: group, file in the group
  export_index, exported,
  calls,         \* the darktable-cli invocations so far
  disk,          \* what the run has written under the dataset directory
  sn_text, sn_once, sn_twice, sn_pc

main_vars ==
  <<args, env, pc, fatal, rglob_done, dngs, groups, job_dir, images_dir,
    gi, fi, export_index, exported, calls, disk>>

sn_vars == <<sn_text, sn_once, sn_twice, sn_pc>>

vars == <<main_vars, sn_vars>>

\* main() is not running
MainIdle ==
  /\ args = [dry_run |-> FALSE, zip |-> FALSE, job_name |-> Absent, out |-> DEFAULT_OUT_DIRNAME]
  /\ env = None
  /\ pc = "idle"
  /\ fatal = None
  /\ rglob_done = FALSE
  /\ dngs = <<>>
  /\ groups = <<>>
  /\ job_dir = None
  /\ images_dir = None
  /\ gi = 0
  /\ fi = 0
  /\ export_index = 0
  /\ exported = <<>>
  /\ calls = <<>>
  /\ disk = EmptyDisk

\* safe_name is not being exercised
SafeNameIdle ==
  /\ sn_text = <<>>
  /\ sn_once = <<>>
  /\ sn_twice = <<>>
  /\ sn_pc = "idle"

\* ------------------------------------------------------------------------
\* main()
\* ------------------------------------------------------------------------

Init ==
  /\ args \in [dry_run : BOOLEAN, zip : BOOLEAN, job_name : JobNameChoices,
               out : {DEFAULT_OUT_DIRNAME}]
  /\ env \in [dataset : DatasetChoices,
              home : {{HomeDir}, {}},
              tool : BOOLEAN,
              tree : {t \in SUBSET EntryUniverse : Cardinality(t) <= MaxEntries},
              timestamp : Timestamps]
  /\ pc = "resolve"
  /\ fatal = None
  /\ rglob_done = FALSE
  /\ dngs = <<>>
  /\ groups = <<>>
  /\ job_dir = None
  /\ images_dir = None
  /\ gi = 0
  /\ fi = 0
  /\ export_index = 0
  /\ exported = <<>>
  /\ calls = <<>>
  /\ disk = EmptyDisk
  /\ SafeNameIdle

\* raise SystemExit(msg)
Die(msg) == pc' = "exit" /\ fatal' = msg

\* dataset_dir = Path(args.path).expanduser().resolve(), must be a directory
ResolveDataset ==
  /\ pc = "resolve"
  /\ IF env.dataset.kind # "dir"
     THEN Die("Not a directory")
     ELSE pc' = "safety" /\ UNCHANGED fatal
  /\ UNCHANGED <<args, env, rglob_done, dngs, groups, job_dir, images_dir, gi, fi,
                 export_index, exported, calls, disk, sn_vars>>

\* the safety check
SafetyCheck ==
  /\ pc = "safety"
  /\ IF is_dangerous_directory(env.dataset.path, env.home)
     THEN Die("Refusing to run in a high risk directory")
     ELSE pc' = "which" /\ UNCHANGED fatal
  /\ UNCHANGED <<args, env, rglob_done, dngs, groups, job_dir, images_dir, gi, fi,
                 export_index, exported, calls, disk, sn_vars>>

\* darktable_cli = which_or_die("darktable-cli")
WhichOrDie ==
  /\ pc = "which"
  /\ IF ~env.tool
     THEN Die("Missing required tool")
     ELSE pc' = "discover" /\ UNCHANGED fatal
  /\ UNCHANGED <<args, env, rglob_done, dngs, groups, job_dir, images_dir, gi, fi,
                 export_index, exported, calls, disk, sn_vars>>

\* the entries of the tree as absolute paths
AbsTree == {[path |-> env.dataset.path \o e.rel, is_file |-> e.is_file] : e \in env.tree}

\* find the inputs and group them
Discover ==
  /\ pc = "discover"
  /\ rglob_done' = TRUE
  /\ dngs' = iter_dngs(AbsTree)
  /\ IF dngs' = <<>>
     THEN Die("No DNG files found") /\ UNCHANGED groups
     ELSE /\ groups' = group_by_parent_dir(dngs')
          /\ pc' = "plan"
          /\ UNCHANGED fatal
  /\ UNCHANGED <<args, env, job_dir, images_dir, gi, fi, export_index, exported,
                 calls, disk, sn_vars>>

\* the plan step without the return on --dry-run
Plan_IgnoresDryRun ==
  /\ pc = "plan"
  /\ job_dir' = JobDir(env.dataset.path, args.out,
                       JobName(args.job_name, env.dataset.path), env.timestamp)
  /\ images_dir' = Append(job_dir', DEFAULT_IMAGES_DIRNAME)
  /\ pc' = "mkdir"
  /\ UNCHANGED <<args, env, fatal, rglob_done, dngs, groups, fi, gi, export_index,
                 exported, calls, disk, sn_vars>>

\* name the job folder, log the plan, return here on --dry-run
Plan ==
  /\ pc = "plan"
  /\ job_dir' = JobDir(env.dataset.path, args.out,
                       JobName(args.job_name, env.dataset.path), env.timestamp)
  /\ images_dir' = Append(job_dir', DEFAULT_IMAGES_DIRNAME)
  /\ pc' = IF args.dry_run THEN "done" ELSE "mkdir"
  /\ UNCHANGED <<args, env, fatal, rglob_done, dngs, groups, gi, fi, export_index,
                 exported, calls, disk, sn_vars>>

\* ensure_dir(images_dir): mkdir(parents=True) below the dataset directory
EnsureImagesDir ==
  /\ pc = "mkdir"
  /\ disk' = [disk EXCEPT !.dirs =
                @ \cup {SubSeq(images_dir, 1, n) :
                          n \in (Len(env.dataset.path) + 1)..Len(images_dir)}]
  /\ exported' = <<>>
  /\ export_index' = 0
  /\ gi' = 1
  /\ fi' = 1
  /\ pc' = "export"
  /\ UNCHANGED <<args, env, fatal, rglob_done, dngs, groups, job_dir, images_dir,
                 calls, sn_vars>>

\* the input file of the current iteration
CurrentFile == groups[gi][2][fi]

\* the output path numbered by the position of the file inside its group
CurrentOutPath_PerGroup ==
  Append(images_dir, OutName(safe_name(Name(groups[gi][1])), fi))

\* the output path of the current iteration, built with the incremented index
CurrentOutPath ==
  Append(images_dir, OutName(safe_name(Name(groups[gi][1])), export_index + 1))

\* the for loops move to the next file, or main() goes on after the last one
Advance ==
  IF LastIteration(groups, gi, fi)
  THEN pc' = PackagingSteps[1] /\ UNCHANGED <<gi, fi>>
  ELSE /\ pc' = "export"
       /\ IF fi < Len(groups[gi][2])
          THEN fi' = fi + 1 /\ gi' = gi
          ELSE fi' = 1 /\ gi' = gi + 1

\* one iteration of the export loop in which darktable-cli exits with 0
ExportSucceeds ==
  /\ pc = "export"
  /\ export_index' = export_index + 1
  /\ calls' = Append(calls, [input_file |-> CurrentFile, output_file |-> CurrentOutPath,
                             export_index |-> export_index', returncode |-> 0])
  /\ disk' = [disk EXCEPT !.images = @ \cup {CurrentOutPath}]
  /\ exported' = Append(exported, CurrentOutPath)
  /\ Advance
  /\ UNCHANGED <<args, env, fatal, rglob_done, dngs, groups, job_dir, images_dir,
                 sn_vars>>

\* a failed conversion is logged and the loop goes on with the next file
ExportFails_Skips ==
  /\ pc = "export"
  /\ export_index' = export_index + 1
  /\ calls' = Append(calls, [input_file |-> CurrentFile, output_file |-> CurrentOutPath,
                             export_index |-> export_index', returncode |-> 1])
  /\ Advance
  /\ UNCHANGED <<args, env, fatal, rglob_done, dngs, groups, job_dir, images_dir,
                 exported, disk, sn_vars>>

\* one iteration of the export loop in which darktable-cli exits with non-zero
\* status: CalledProcessError becomes SystemExit; the failed converter leaves
\* no output file and main() removes nothing
ExportFails ==
  /\ pc = "export"
  /\ export_index' = export_index + 1
  /\ calls' = Append(calls, [input_file |-> CurrentFile, output_file |-> CurrentOutPath,
                             export_index |-> export_index', returncode |-> 1])
  /\ Die("darktable-cli failed")
  /\ UNCHANGED <<args, env, rglob_done, dngs, groups, job_dir, images_dir, gi, fi,
                 exported, disk, sn_vars>>

\* write_job_json(job_dir, payload)
WriteJobJson ==
  /\ pc = "write_job_json"
  /\ disk' = [disk EXCEPT !.job_json =
                << [dataset_dir |-> Str(env.dataset.path),
                    job_dir |-> Str(job_dir),
                    images_dir |-> Str(images_dir),
                    inputs_found |-> Len(dngs),
                    outputs_written |-> Len(exported),
                    created_at |-> env.timestamp] >>]
  /\ pc' = StepAfter("write_job_json")
  /\ UNCHANGED <<args, env, fatal, rglob_done, dngs, groups, job_dir, images_dir,
                 gi, fi, export_index, exported, calls, sn_vars>>

\* write_manifest(job_dir, exported)
WriteManifest ==
  /\ pc = "write_manifest"
  /\ disk' = [disk EXCEPT !.manifest = <<ManifestText(exported)>>]
  /\ pc' = StepAfter("write_manifest")
  /\ UNCHANGED <<args, env, fatal, rglob_done, dngs, groups, job_dir, images_dir,
                 gi, fi, export_index, exported, calls, sn_vars>>

\* the optional zip: zip_job archives what the job folder holds at that moment
ZipJob ==
  /\ pc = "zip"
  /\ disk' = IF args.zip
             THEN [disk EXCEPT !.zip = << [images |-> disk.images,
                                           job_json |-> disk.job_json,
                                           manifest |-> disk.manifest] >>]
             ELSE disk
  /\ pc' = StepAfter("zip")
  /\ UNCHANGED <<args, env, fatal, rglob_done, dngs, groups, job_dir, images_dir,
                 gi, fi, export_index, exported, calls, sn_vars>>

Next ==
  \/ ResolveDataset
  \/ SafetyCheck
  \/ WhichOrDie
  \/ Discover
  \/ Plan
  \/ EnsureImagesDir
  \/ ExportSucceeds
  \/ ExportFails
  \/ WriteJobJson
  \/ WriteManifest
  \/ ZipJob

Spec == Init /\ [][Next]_vars

\* ------------------------------------------------------------------------
\* safe_name as a state machine: a text is drawn, sanitized, and the result
\* is sanitized again
\* ------------------------------------------------------------------------

\* characters the drawn texts are made of
SafeNameAlphabet == {"\t", " ", "/", "_", ".", "a"}

RECURSIVE StringsUpTo(_, _)
\* all sequences over alphabet A of length at most n
StringsUpTo(A, n) ==
  IF n = 0 THEN {<<>>}
  ELSE LET shorter == StringsUpTo(A, n - 1)
       IN  shorter \cup {Append(s, c) : s \in {t \in shorter : Len(t) = n - 1}, c \in A}

SafeNameInit ==
  /\ sn_text \in StringsUpTo(SafeNameAlphabet, MaxLen)
  /\ sn_once = <<>>
  /\ sn_twice = <<>>
  /\ sn_pc = "input"
  /\ MainIdle

\* first call: safe_name(text)
SanitizeOnce ==
  /\ sn_pc = "input"
  /\ sn_once' = safe_name(sn_text)
  /\ sn_pc' = "once"
  /\ UNCHANGED <<sn_text, sn_twice, main_vars>>

\* second call: safe_name(safe_name(text))
SanitizeTwice ==
  /\ sn_pc = "once"
  /\ sn_twice' = safe_name(sn_once)
  /\ sn_pc' = "twice"
  /\ UNCHANGED <<sn_text, sn_once, main_vars>>

SafeNameNext == SanitizeOnce \/ SanitizeTwice

SafeNameSpec == SafeNameInit /\ [][SafeNameNext]_vars

\* ------------------------------------------------------------------------
\* Properties
\* ------------------------------------------------------------------------

RECURSIVE FlatFiles(_)
\* the files of all groups, in group-then-file order
FlatFiles(gs) == IF gs = <<>> THEN <<>> ELSE gs[1][2] \o FlatFiles(Tail(gs))

\* the position of the last "_" of a name, 0 when there is none
LastUnderscore(name) ==
  LET us == {i \in 1..Len(name) : name[i] = "_"}
  IN  IF us = {} THEN 0 ELSE CHOOSE i \in us : \A j \in us : j <= i

RECURSIVE DigitsValue(_)
\* the natural number a string of decimal digits denotes
DigitsValue(ds) ==
  IF ds = <<>> THEN 0
  ELSE 10 * DigitsValue(SubSeq(ds, 1, Len(ds) - 1))
       + (CHOOSE d \in 0..9 : DigitChars[d + 1] = ds[Len(ds)])

\* the index read back from an output file name <group>_<index>.jpg
IndexOfName(name) ==
  DigitsValue(SubSeq(name, LastUnderscore(name) + 1, Len(name) - 4))

\* every conversion so far exited with status 0
AllSucceeded == \A k \in 1..Len(calls) : calls[k].returncode = 0

\* the steps of main() that follow a successful discovery
AfterDiscovery ==
  {"plan", "mkdir", "export", "write_job_json", "write_manifest", "zip", "done"}

\* C1: while every conversion succeeds, the k-th converter call is for the
\* k-th file in group-then-file order and carries index k, also in its file
\* name; the output paths are pairwise distinct; a finished run has used
\* exactly the indices 1..N for its N inputs.
C1_GlobalIndex ==
  AllSucceeded =>
    /\ \A k \in 1..Len(calls) :
         /\ calls[k].export_index = k
         /\ calls[k].input_file = FlatFiles(groups)[k]
         /\ IndexOfName(Name(calls[k].output_file)) = k
         /\ Parent(calls[k].output_file) = images_dir
    /\ \A j, k \in 1..Len(calls) :
         j # k => calls[j].output_file # calls[k].output_file
    /\ (pc = "done" /\ ~args.dry_run) =>
         /\ Len(calls) = Len(dngs)
         /\ {calls[k].export_index : k \in 1..Len(calls)} = 1..Len(dngs)
         /\ exported = [k \in 1..Len(calls) |-> calls[k].output_file]

\* a finished run over three files in two groups whose sanitized names agree
C1_Witness ==
  /\ pc = "done"
  /\ ~args.dry_run
  /\ Len(calls) = 3
  /\ Len(groups) >= 2
  /\ \E a, b \in 1..Len(groups) :
       a # b /\ safe_name(Name(groups[a][1])) = safe_name(Name(groups[b][1]))

\* C2: when the converter exits with non-zero status on the k-th file, the
\* run is over with the fatal error: no later converter call, no
\* manifest.txt, no job.json, no archive, and the outputs of files 1..k-1
\* are on disk.
C2_FailFast ==
  \A k \in 1..Len(calls) :
    calls[k].returncode # 0 =>
      /\ Len(calls) = k
      /\ pc = "exit"
      /\ fatal = "darktable-cli failed"
      /\ disk.manifest = Absent
      /\ disk.job_json = Absent
      /\ disk.zip = Absent
      /\ disk.images = {calls[j].output_file : j \in 1..(k - 1)}
      /\ Cardinality(disk.images) = k - 1

\* the converter failed on the second of three files
C2_Witness ==
  /\ Len(dngs) = 3
  /\ Len(calls) = 2
  /\ calls[2].returncode # 0
  /\ Cardinality(disk.images) = 1

\* C3: with --dry-run nothing is written and the converter is never called,
\* and an empty discovery still ends in the "No DNG files found" error.
C3_DryRun ==
  args.dry_run =>
    /\ disk = EmptyDisk
    /\ calls = <<>>
    /\ pc \notin {"mkdir", "export", "write_job_json", "write_manifest", "zip"}
    /\ (rglob_done /\ dngs = <<>>) => (pc = "exit" /\ fatal = "No DNG files found")

\* a dry run that found inputs and returned
C3_Witness ==
  /\ args.dry_run
  /\ pc = "done"
  /\ Len(dngs) >= 2
  /\ args.zip

\* the dataset path is on the deny-list or is the home directory
Disallowed == env.dataset.path \in Dangerous \/ env.dataset.path \in env.home

\* one of the pre-flight fatal conditions holds for this run
PreflightFails ==
  \/ env.dataset.kind # "dir"
  \/ Disallowed
  \/ ~env.tool
  \/ iter_dngs(AbsTree) = <<>>

\* C4: under a pre-flight fatal condition main() never gets past discovery
\* and writes nothing; once it has stopped it has stopped with a fatal error;
\* for a missing or disallowed directory no discovery is performed.
C4_Preflight ==
  /\ PreflightFails =>
       /\ disk = EmptyDisk
       /\ calls = <<>>
       /\ pc \in {"resolve", "safety", "which", "discover", "exit"}
       /\ pc = "exit" =>
            fatal \in {"Not a directory", "Refusing to run in a high risk directory",
                       "Missing required tool", "No DNG files found"}
  /\ (env.dataset.kind # "dir" \/ Disallowed) => ~rglob_done
  /\ (env.dataset.kind = "dir" /\ Disallowed /\ pc = "exit") =>
       fatal = "Refusing to run in a high risk directory"

\* the run was refused in the home directory, which holds DNG files
C4_Witness ==
  /\ pc = "exit"
  /\ fatal = "Refusing to run in a high risk directory"
  /\ env.dataset.path = HomeDir
  /\ env.tool
  /\ iter_dngs(AbsTree) # <<>>

\* the places <<g, f>> of the groups that hold file p
PlacesOf(p) ==
  {x \in (1..Len(groups)) \X (1..Len(dngs)) :
     x[2] <= Len(groups[x[1]][2]) /\ groups[x[1]][2][x[2]] = p}

\* C5: the groups are a partition of the discovered files: every file is in
\* exactly one group, once, and it is the group of its parent; no group is
\* empty; there is one group per distinct parent; the groups are in
\* ascending order of the parent path string and the files of a group in
\* ascending order.
C5_Partition ==
  pc \in AfterDiscovery =>
    /\ \A i \in 1..Len(dngs) : Cardinality(PlacesOf(dngs[i])) = 1
    /\ Len(FlatFiles(groups)) = Len(dngs)
    /\ \A g \in 1..Len(groups) :
         /\ groups[g][2] # <<>>
         /\ \A f \in 1..Len(groups[g][2]) : Parent(groups[g][2][f]) = groups[g][1]
         /\ \A f1, f2 \in 1..Len(groups[g][2]) :
              f1 < f2 => PathLess(groups[g][2][f1], groups[g][2][f2])
    /\ {groups[g][1] : g \in 1..Len(groups)} = {Parent(dngs[i]) : i \in 1..Len(dngs)}
    /\ \A g1, g2 \in 1..Len(groups) :
         g1 < g2 => StrLess(Str(groups[g1][1]), Str(groups[g2][1]))

\* three groups whose order by path string is not their order as paths
C5_Witness ==
  /\ pc \in AfterDiscovery
  /\ Len(groups) = 3
  /\ \E g1, g2 \in 1..Len(groups) : g1 < g2 /\ PathLess(groups[g2][1], groups[g1][1])

\* the converter has succeeded for every discovered input and the outputs
\* are on disk
AllConverted ==
  /\ Len(calls) = Len(dngs)
  /\ AllSucceeded
  /\ {calls[k].input_file : k \in 1..Len(calls)} = {dngs[i] : i \in 1..Len(dngs)}
  /\ Cardinality(disk.images) = Len(dngs)
  /\ \A k \in 1..Len(calls) : calls[k].output_file \in disk.images

\* the manifest, metadata or archive step has begun
PackagingBegun == disk.manifest # Absent \/ disk.job_json # Absent \/ disk.zip # Absent

\* C6: manifest.txt and job.json are written only once the converter has
\* succeeded for all inputs; the archive is made only with --zip and once
\* all images, manifest.txt and job.json exist, and it holds them; no
\* converter call and no new image after packaging has begun.
C6_PackagingOrder ==
  /\ [](/\ PackagingBegun => AllConverted
        /\ disk.zip # Absent =>
             /\ args.zip
             /\ disk.manifest # Absent
             /\ disk.job_json # Absent
             /\ disk.zip = << [images |-> disk.images, job_json |-> disk.job_json,
                               manifest |-> disk.manifest] >>)
  /\ [][PackagingBegun => (calls' = calls /\ disk'.images = disk.images)]_vars

\* an archive was made of a job with three images
C6_Witness ==
  /\ disk.zip # Absent
  /\ Len(dngs) = 3
  /\ Len(groups) >= 2

\* C7 as stated: manifest.txt is written before job.json
C7_ManifestBeforeJobJson == disk.job_json # Absent => disk.manifest # Absent

\* C7, amended: the images are written first, then job.json, then
\* manifest.txt.
C7_JobJsonBeforeManifest ==
  /\ disk.job_json # Absent => AllConverted
  /\ disk.manifest # Absent => disk.job_json # Absent

\* job.json is on disk and manifest.txt is not yet
C7_Witness ==
  /\ pc = "write_manifest"
  /\ disk.job_json # Absent
  /\ disk.manifest = Absent
  /\ Cardinality(disk.images) >= 2

\* len(text.splitlines()) for a text whose lines end in "\n"
LineCount(text) ==
  Cardinality({i \in 1..Len(text) : text[i] = "\n"})
  + (IF text # <<>> /\ text[Len(text)] # "\n" THEN 1 ELSE 0)

\* C8: after a successful run manifest.txt has as many lines as outputs were
\* exported, and outputs_written in job.json is that number of lines.
C8_ManifestCount ==
  (pc = "done" /\ ~args.dry_run) =>
    /\ LineCount(disk.manifest[1]) = Cardinality(disk.images)
    /\ disk.job_json[1].outputs_written = LineCount(disk.manifest[1])

\* C9: sanitizing a sanitized string returns it unchanged.
C9_Idempotent == sn_pc = "twice" => sn_twice = sn_once

\* a text with a run of spaces and a disallowed character was sanitized twice
C9_Witness ==
  /\ sn_pc = "twice"
  /\ HasDoubleSpace(Strip(sn_text))
  /\ \E i \in 1..Len(sn_text) : sn_text[i] = "/"
  /\ sn_once # sn_text

\* the text is not empty and has no alphanumeric, underscore, dot or space
OnlyDisallowed(text) ==
  /\ text # <<>>
  /\ \A i \in 1..Len(text) : ~(IsAlnum(text[i]) \/ text[i] \in {"_", ".", " "})

\* the text is not empty and made of underscores only
OnlyUnderscores(text) ==
  /\ text # <<>>
  /\ \A i \in 1..Len(text) : text[i] = "_"

====
